---- MODULE Spec2Model ----
(***************************************************************************)
(* A model of parse_topology_tool.py: the config parser, the router-link   *)
(* matcher, the access-LAN inferrer, the layer assigner, the load          *)
(* annotator and the node/edge construction of the graph renderer.         *)
(*                                                                         *)
(* Optional values (Python None) are sequences: <<>> is None, <<v>> is v.  *)
(* A config line is the sequence of its whitespace-separated tokens.       *)
(* An IPv4 address or netmask is the sequence of its four octets.          *)
(***************************************************************************)
EXTENDS Integers, Sequences, FiniteSets, TLC

VARIABLES
    file,             \* parse_config: the lines read from the file so far
    data,             \* parse_config: {"hostname", "interfaces"}
    current,          \* parse_config: the open interface record, or None
    ppc,              \* parse_config: "reading" | "done" | "idle"
    routers,          \* __main__: the list of parsed routers
    rtr_links,        \* __main__: find_router_links' result
    switches,         \* __main__: infer_access_lans' switches
    endpoints,        \* __main__: infer_access_lans' endpoints
    access_links,     \* __main__: infer_access_lans' access links
    layer_map,        \* __main__: auto_assign_layers' result
    rtr_links_annot,  \* __main__: annotated router links
    acc_links_annot,  \* __main__: annotated access links
    G,                \* build_and_draw: the graph (nodes with attributes, edges)
    pos_error,        \* build_and_draw: the layout loop raised KeyError('layer')
    LOAD_MODE,        \* configuration: "apps" | "random" | "fixed"
    USE_PEAK,         \* configuration: peak or average of the chosen profile
    stage             \* __main__: the next step of the run

vars == <<file, data, current, ppc, routers, rtr_links, switches, endpoints,
          access_links, layer_map, rtr_links_annot, acc_links_annot, G,
          pos_error, LOAD_MODE, USE_PEAK, stage>>

parserVars == <<file, data, current, ppc>>
runVars == <<routers, rtr_links, switches, endpoints, access_links, layer_map,
             rtr_links_annot, acc_links_annot, G, pos_error, LOAD_MODE,
             USE_PEAK, stage>>

----------------------------------------------------------------------------
(* Bounds of the explored inputs *)

MaxLines == 4
MaxRouters == 2
MaxIfaces == 2
MaxLinks == 3
MaxLoadLinks == 2

----------------------------------------------------------------------------
(* Program constants *)

TRAFFIC_MIN == 2000
TRAFFIC_MAX == 15000
FIXED_LOAD == 8000
DEFAULT_ROUTER_IF_BW == 10000
DEFAULT_ENDPOINT_LINK_BW == 1000
ENDPOINTS_PER_LAN == 2

AppNames ==
    <<"Web Browsing", "Video Streaming", "VoIP", "File Transfer", "Cloud Backup">>

APP_PROFILES ==
    [a \in {AppNames[i] : i \in 1..Len(AppNames)} |->
        CASE a = "Web Browsing"    -> [peak |-> 2000, avg |-> 500]
          [] a = "Video Streaming" -> [peak |-> 8000, avg |-> 5000]
          [] a = "VoIP"            -> [peak |-> 512,  avg |-> 256]
          [] a = "File Transfer"   -> [peak |-> 9000, avg |-> 6000]
          [] a = "Cloud Backup"    -> [peak |-> 7000, avg |-> 4000]]

LoadModes == {"apps", "random", "fixed"}

----------------------------------------------------------------------------
(* Optional values *)

None == <<>>
Some(v) == <<v>>
IsNone(o) == o = <<>>
Get(o) == o[1]

\* Python truthiness of an optional integer: None and 0 are falsy.
TruthyInt(o) == o # <<>> /\ o[1] # 0

\* Python `x or y` on an optional integer x.
OrElse(o, dflt) == IF TruthyInt(o) THEN o ELSE dflt

----------------------------------------------------------------------------
(* STEP 1: parse_config *)

\* The lines a config file is made of in the explored inputs.
ConfigLines ==
    { <<>>,
      <<"hostname", "R1">>,
      <<"hostname">>,
      <<"interface", "Fa0/0">>,
      <<"interface", "Fa0/1">>,
      <<"interface">>,
      <<"ip", "address", "10.0.0.1", "255.255.255.252">>,
      <<"ip", "address", "10.0.1.1">>,
      <<"bandwidth", "5000">>,
      <<"bandwidth", "fast">>,
      <<"shutdown">> }

\* line.startswith(kw) for a one-word keyword, on the token sequence: the
\* first token of every explored line is either the keyword or does not
\* start with it.
StartsWith(line, kw) == Len(line) >= 1 /\ line[1] = kw

\* line.startswith("ip address")
StartsWithIpAddress(line) == Len(line) >= 2 /\ line[1] = "ip" /\ line[2] = "address"

\* int(tok): <<n>>, or None where int() raises ValueError.
ParseInt(tok) ==
    CASE tok = "5000" -> Some(5000)
      [] tok = "0"    -> Some(0)
      [] OTHER        -> None

NewInterface(name) == [name |-> name, ip |-> None, mask |-> None, bandwidth |-> None]

\* `if current: data["interfaces"].append(current)`
AppendOpen(d, cur) ==
    IF IsNone(cur) THEN d
    ELSE [d EXCEPT !.interfaces = Append(@, Get(cur))]

OnHostname(d, line) ==
    IF Len(line) >= 2 THEN [d EXCEPT !.hostname = Some(line[2])] ELSE d

\* line.split(maxsplit=1): the name is the remainder of the line.
OnInterfaceOpen(line) ==
    IF Len(line) >= 2 THEN Some(NewInterface(line[2])) ELSE Some(NewInterface("UNKNOWN"))

\* A slip: the address is taken as soon as it is there, the mask only with 4 tokens.
OnIpAddress_AddressFirst(cur, line) ==
    IF Len(line) >= 4
    THEN Some([Get(cur) EXCEPT !.ip = Some(line[3]), !.mask = Some(line[4])])
    ELSE IF Len(line) >= 3
    THEN Some([Get(cur) EXCEPT !.ip = Some(line[3])])
    ELSE cur

OnIpAddress(cur, line) ==
    IF Len(line) >= 4
    THEN Some([Get(cur) EXCEPT !.ip = Some(line[3]), !.mask = Some(line[4])])
    ELSE cur

OnBandwidth(cur, line) ==
    IF Len(line) >= 2 /\ ~IsNone(ParseInt(line[2]))
    THEN Some([Get(cur) EXCEPT !.bandwidth = ParseInt(line[2])])
    ELSE cur

\* A slip: the record still open at end of file is not appended.
EndOfFile_DropOpen(d, cur) == d

\* After the loop: `if current: data["interfaces"].append(current)`
EndOfFile(d, cur) == AppendOpen(d, cur)

ReadBlank ==
    /\ ppc = "reading" /\ Len(file) < MaxLines
    /\ file' = Append(file, <<>>)
    /\ UNCHANGED <<data, current, ppc>>
    /\ UNCHANGED runVars

ReadHostname ==
    /\ ppc = "reading" /\ Len(file) < MaxLines
    /\ \E line \in ConfigLines :
        /\ StartsWith(line, "hostname")
        /\ file' = Append(file, line)
        /\ data' = OnHostname(data, line)
    /\ UNCHANGED <<current, ppc>>
    /\ UNCHANGED runVars

ReadInterface ==
    /\ ppc = "reading" /\ Len(file) < MaxLines
    /\ \E line \in ConfigLines :
        /\ ~StartsWith(line, "hostname")
        /\ StartsWith(line, "interface")
        /\ file' = Append(file, line)
        /\ data' = AppendOpen(data, current)
        /\ current' = OnInterfaceOpen(line)
    /\ UNCHANGED ppc
    /\ UNCHANGED runVars

ReadIpAddress ==
    /\ ppc = "reading" /\ Len(file) < MaxLines
    /\ \E line \in ConfigLines :
        /\ ~StartsWith(line, "hostname") /\ ~StartsWith(line, "interface")
        /\ StartsWithIpAddress(line) /\ ~IsNone(current)
        /\ file' = Append(file, line)
        /\ current' = OnIpAddress(current, line)
    /\ UNCHANGED <<data, ppc>>
    /\ UNCHANGED runVars

ReadBandwidth ==
    /\ ppc = "reading" /\ Len(file) < MaxLines
    /\ \E line \in ConfigLines :
        /\ ~StartsWith(line, "hostname") /\ ~StartsWith(line, "interface")
        /\ ~(StartsWithIpAddress(line) /\ ~IsNone(current))
        /\ StartsWith(line, "bandwidth") /\ ~IsNone(current)
        /\ file' = Append(file, line)
        /\ current' = OnBandwidth(current, line)
    /\ UNCHANGED <<data, ppc>>
    /\ UNCHANGED runVars

\* A line no branch of the if/elif chain takes.
ReadIgnored ==
    /\ ppc = "reading" /\ Len(file) < MaxLines
    /\ \E line \in ConfigLines :
        /\ line # <<>>
        /\ ~StartsWith(line, "hostname") /\ ~StartsWith(line, "interface")
        /\ ~(StartsWithIpAddress(line) /\ ~IsNone(current))
        /\ ~(StartsWith(line, "bandwidth") /\ ~IsNone(current))
        /\ file' = Append(file, line)
    /\ UNCHANGED <<data, current, ppc>>
    /\ UNCHANGED runVars

ReadEof ==
    /\ ppc = "reading"
    /\ data' = EndOfFile(data, current)
    /\ ppc' = "done"
    /\ UNCHANGED <<file, current>>
    /\ UNCHANGED runVars

ParseInit ==
    /\ file = <<>>
    /\ data = [hostname |-> None, interfaces |-> <<>>]
    /\ current = None
    /\ ppc = "reading"

ParseIdle ==
    /\ file = <<>>
    /\ data = [hostname |-> None, interfaces |-> <<>>]
    /\ current = None
    /\ ppc = "idle"

----------------------------------------------------------------------------
(* Inputs of the run: the list of parsed routers *)

\* (ip, mask, bandwidth) of the interfaces in the explored inputs.
IfaceSamples ==
    { [ip |-> None,                mask |-> None,                      bandwidth |-> None],
      [ip |-> Some(<<10,0,0,1>>),  mask |-> Some(<<255,255,255,252>>), bandwidth |-> None],
      [ip |-> Some(<<10,0,0,2>>),  mask |-> Some(<<255,255,255,252>>), bandwidth |-> Some(0)],
      [ip |-> Some(<<10,0,0,2>>),  mask |-> Some(<<255,255,255,252>>), bandwidth |-> Some(5000)],
      [ip |-> Some(<<10,0,0,5>>),  mask |-> Some(<<255,255,255,252>>), bandwidth |-> None],
      [ip |-> Some(<<10,0,0,5>>),  mask |-> Some(<<255,255,255,0>>),   bandwidth |-> Some(2000)] }

\* An interface name is kept as its segments between '/' characters:
\* <<"Fa0", "1">> is "Fa0/1".
IfaceName(i) == <<"Fa0", ToString(i - 1)>>

SeqsUpTo(S, n) == UNION { [1..k -> S] : k \in 0..n }

MkInterfaces(samples) ==
    [i \in 1..Len(samples) |->
        [name |-> IfaceName(i), ip |-> samples[i].ip, mask |-> samples[i].mask,
         bandwidth |-> samples[i].bandwidth]]

\* Router i of the list is named R<i>.
MkRouters(ifaceLists) ==
    [i \in 1..Len(ifaceLists) |->
        [hostname |-> "R" \o ToString(i), interfaces |-> MkInterfaces(ifaceLists[i])]]

RouterLists == { MkRouters(l) : l \in SeqsUpTo(SeqsUpTo(IfaceSamples, MaxIfaces), MaxRouters) }

----------------------------------------------------------------------------
(* Subnets *)

RECURSIVE BitAnd(_, _)
BitAnd(a, b) ==
    IF a = 0 \/ b = 0 THEN 0
    ELSE (a % 2) * (b % 2) + 2 * BitAnd(a \div 2, b \div 2)

\* ipaddress.IPv4Network(f"{ip}/{mask}", strict=False): the host bits of the
\* address are masked off; two networks are equal when network address and
\* netmask are equal.
IPv4Network(ip, mask) ==
    [network_address |-> [i \in 1..4 |-> BitAnd(ip[i], mask[i])], netmask |-> mask]

\* `iface["ip"] and iface["mask"]`
Addressed(iface) == ~IsNone(iface.ip) /\ ~IsNone(iface.mask)

NetOf(iface) == IPv4Network(Get(iface.ip), Get(iface.mask))

----------------------------------------------------------------------------
(* STEP 2: find_router_links *)

RouterIfaces(r) ==
    LET addressed == SelectSeq(r.interfaces, Addressed)
    IN  [i \in 1..Len(addressed) |->
            [router |-> r.hostname, iface |-> addressed[i], net |-> NetOf(addressed[i])]]

RECURSIVE AllIfaces(_)
AllIfaces(rs) ==
    IF rs = <<>> THEN <<>> ELSE RouterIfaces(Head(rs)) \o AllIfaces(Tail(rs))

\* `ia["bandwidth"] or ib["bandwidth"] or DEFAULT_ROUTER_IF_BW`
LinkBandwidth(ia, ib) ==
    Get(OrElse(ia.bandwidth, OrElse(ib.bandwidth, Some(DEFAULT_ROUTER_IF_BW))))

RECURSIVE MatchFrom(_, _, _)
MatchFrom(all, i, j) ==
    IF i > Len(all) THEN <<>>
    ELSE IF j > Len(all) THEN MatchFrom(all, i + 1, i + 2)
    ELSE LET rest == MatchFrom(all, i, j + 1)
         IN  IF all[i].net = all[j].net
             THEN <<[a |-> all[i].router, b |-> all[j].router,
                     bw |-> LinkBandwidth(all[i].iface, all[j].iface)]>> \o rest
             ELSE rest

find_router_links(rs) == MatchFrom(AllIfaces(rs), 1, 2)

----------------------------------------------------------------------------
(* STEP 3: infer_access_lans *)

\* net_map.setdefault(str(net), []).append(attach); the dict keeps its keys
\* in insertion order.
RECURSIVE NetMapAdd(_, _, _)
NetMapAdd(nm, net, attach) ==
    IF nm = <<>> THEN <<[net |-> net, attaches |-> <<attach>>]>>
    ELSE IF Head(nm).net = net
         THEN <<[Head(nm) EXCEPT !.attaches = Append(@, attach)]>> \o Tail(nm)
         ELSE <<Head(nm)>> \o NetMapAdd(Tail(nm), net, attach)

RECURSIVE NetMapFill(_, _)
NetMapFill(nm, all) ==
    IF all = <<>> THEN nm
    ELSE NetMapFill(
            NetMapAdd(nm, Head(all).net,
                [router |-> Head(all).router, iface |-> Head(all).iface.name,
                 bw |-> Get(OrElse(Head(all).iface.bandwidth, Some(DEFAULT_ROUTER_IF_BW)))]),
            Tail(all))

NetMap(rs) == NetMapFill(<<>>, AllIfaces(rs))

\* iname.replace('/', '_')
RECURSIVE ReplaceSlash(_)
ReplaceSlash(segs) ==
    IF Len(segs) = 1 THEN segs[1]
    ELSE segs[1] \o "_" \o ReplaceSlash(Tail(segs))

SwitchName(rname, iname) == "SW_" \o rname \o "_" \o ReplaceSlash(iname)
EndpointName(sw_name, idx) == "PC_" \o sw_name \o "_" \o ToString(idx)

\* A slip: a LAN is a subnet whose attachments all belong to one router.
IsAccessLan_OneRouter(attaches) ==
    \A i \in 1..Len(attaches) : attaches[i].router = attaches[1].router

\* `if len(attaches) == 1`
IsAccessLan(attaches) == Len(attaches) = 1

\* What one access LAN adds to (switches, endpoints, access_links).
LanOf(net, attach) ==
    LET sw_name == SwitchName(attach.router, attach.iface)
    IN  [switches |-> <<[name |-> sw_name, router |-> attach.router, lan_net |-> net]>>,
         endpoints |-> [idx \in 1..ENDPOINTS_PER_LAN |-> EndpointName(sw_name, idx)],
         access_links |->
            <<[a |-> attach.router, b |-> sw_name, bw |-> attach.bw]>> \o
            [idx \in 1..ENDPOINTS_PER_LAN |->
                [a |-> sw_name, b |-> EndpointName(sw_name, idx),
                 bw |-> DEFAULT_ENDPOINT_LINK_BW]]]

NoLans == [switches |-> <<>>, endpoints |-> <<>>, access_links |-> <<>>]

RECURSIVE LansOf(_)
LansOf(nm) ==
    IF nm = <<>> THEN NoLans
    ELSE LET rest == LansOf(Tail(nm))
         IN  IF IsAccessLan(Head(nm).attaches)
             THEN LET lan == LanOf(Head(nm).net, Head(nm).attaches[1])
                  IN  [switches |-> lan.switches \o rest.switches,
                       endpoints |-> lan.endpoints \o rest.endpoints,
                       access_links |-> lan.access_links \o rest.access_links]
             ELSE rest

infer_access_lans(rs) == LansOf(NetMap(rs))

----------------------------------------------------------------------------
(* STEP 4: auto_assign_layers *)

\* A Python dict is a function; its keys are the function's domain.
EmptyDict == <<>>
Put(d, k, v) == [x \in (DOMAIN d) \cup {k} |-> IF x = k THEN v ELSE d[x]]
SetDefault(d, k, v) == IF k \in DOMAIN d THEN d ELSE Put(d, k, v)

Bandwidths(links) == { links[i].bw : i \in 1..Len(links) }
MaxBw(links) == CHOOSE m \in Bandwidths(links) : \A x \in Bandwidths(links) : x <= m
MinBw(links) == CHOOSE m \in Bandwidths(links) : \A x \in Bandwidths(links) : m <= x

\* for a, b, _ in router_links: if a != core: setdefault(a, 1); if b != core: ...
RECURSIVE EqualPass(_, _, _, _)
EqualPass(layer, links, i, core) ==
    IF i > Len(links) THEN layer
    ELSE LET l1 == IF links[i].a # core THEN SetDefault(layer, links[i].a, 1) ELSE layer
             l2 == IF links[i].b # core THEN SetDefault(l1, links[i].b, 1) ELSE l1
         IN  EqualPass(l2, links, i + 1, core)

\* A slip: the second end of the first link is taken as the core.
EqualBandwidthLayers_SecondEnd(links) ==
    LET core == links[1].b
    IN  EqualPass(Put(EmptyDict, core, 0), links, 1, core)

\* The branch taken when all router-link bandwidths are equal.
EqualBandwidthLayers(links) ==
    LET core == links[1].a
    IN  EqualPass(Put(EmptyDict, core, 0), links, 1, core)

\* Core: routers on highest-BW links
RECURSIVE CorePass(_, _, _, _)
CorePass(layer, links, i, max_bw) ==
    IF i > Len(links) THEN layer
    ELSE CorePass(
            IF links[i].bw = max_bw
            THEN Put(Put(layer, links[i].a, 0), links[i].b, 0)
            ELSE layer,
            links, i + 1, max_bw)

\* Dist: `if a not in layer and b in layer: layer[a] = 1` and the same for b,
\* both against the dict as the loop has updated it so far.
RECURSIVE DistPass(_, _, _)
DistPass(layer, links, i) ==
    IF i > Len(links) THEN layer
    ELSE LET a == links[i].a
             b == links[i].b
             l1 == IF a \notin DOMAIN layer /\ b \in DOMAIN layer
                   THEN Put(layer, a, 1) ELSE layer
             l2 == IF b \notin DOMAIN l1 /\ a \in DOMAIN l1
                   THEN Put(l1, b, 1) ELSE l1
         IN  DistPass(l2, links, i + 1)

\* Any stragglers -> layer 2
RECURSIVE StragglerPass(_, _, _)
StragglerPass(layer, links, i) ==
    IF i > Len(links) THEN layer
    ELSE StragglerPass(SetDefault(SetDefault(layer, links[i].a, 2), links[i].b, 2),
                       links, i + 1)

\* The branch taken when the router-link bandwidths differ.
MixedBandwidthLayers(links) ==
    StragglerPass(DistPass(CorePass(EmptyDict, links, 1, MaxBw(links)), links, 1), links, 1)

RouterLayers(links) ==
    IF links = <<>> THEN EmptyDict
    ELSE IF MaxBw(links) = MinBw(links) THEN EqualBandwidthLayers(links)
    ELSE MixedBandwidthLayers(links)

RECURSIVE SwitchPass(_, _, _)
SwitchPass(layer, sws, i) ==
    IF i > Len(sws) THEN layer ELSE SwitchPass(Put(layer, sws[i].name, 2), sws, i + 1)

RECURSIVE EndpointPass(_, _, _)
EndpointPass(layer, eps, i) ==
    IF i > Len(eps) THEN layer ELSE EndpointPass(Put(layer, eps[i], 3), eps, i + 1)

auto_assign_layers(router_links, sws, eps) ==
    EndpointPass(SwitchPass(RouterLayers(router_links), sws, 1), eps, 1)

----------------------------------------------------------------------------
(* STEP 5: compute_load, annotate_links_with_load *)

\* The values random.randint(lo, hi) is explored with.
RandIntSamples(lo, hi) ==
    {lo, hi} \cup { x \in {999, 1000, 1001, 9999, 10000, 10001} : lo <= x /\ x <= hi }

AccessWeights == <<4, 2, 4, 2, 1>>
RouterWeights == <<2, 4, 1, 4, 3>>

\* random.choices(population, weights, k=1)[0]: any entry of positive weight.
WeightedChoices(weights) == { AppNames[i] : i \in { j \in 1..Len(AppNames) : weights[j] > 0 } }

\* One link's draws from the random source: the weighted application
\* choice, compute_load's uniform application choice, and the randint value.
Draws(is_access) ==
    IF LOAD_MODE = "apps"
    THEN { [weighted |-> a, uniform |-> AppNames[1], randint |-> TRAFFIC_MIN] :
              a \in WeightedChoices(IF is_access THEN AccessWeights ELSE RouterWeights) }
    ELSE IF LOAD_MODE = "random"
    THEN { [weighted |-> AppNames[1], uniform |-> AppNames[1], randint |-> r] :
              r \in RandIntSamples(TRAFFIC_MIN, TRAFFIC_MAX) }
    ELSE { [weighted |-> AppNames[1], uniform |-> AppNames[1], randint |-> TRAFFIC_MIN] }

compute_load(bw, app_choice, draw) ==
    IF LOAD_MODE = "fixed" THEN FIXED_LOAD
    ELSE IF LOAD_MODE = "random" THEN draw.randint
    ELSE LET choice == IF IsNone(app_choice) THEN draw.uniform ELSE Get(app_choice)
             profile == APP_PROFILES[choice]
         IN  IF USE_PEAK THEN profile.peak ELSE profile.avg

\* A slip: the bandwidth is not required to be positive.
Overloaded_AnyBandwidth(bw, load) == load > bw

\* overloaded = (bw > 0) and (load > bw)
Overloaded(bw, load) == (bw > 0) /\ (load > bw)

AnnotateLink(link, draw) ==
    LET app == IF LOAD_MODE = "apps" THEN Some(draw.weighted) ELSE None
        load == compute_load(link.bw, app, draw)
    IN  [a |-> link.a, b |-> link.b, bw |-> link.bw, load |-> load,
         overloaded |-> Overloaded(link.bw, load), app |-> app]

annotate_links_with_load(links, draws) ==
    [i \in 1..Len(links) |-> AnnotateLink(links[i], draws[i])]

----------------------------------------------------------------------------
(* STEP 6: build_and_draw, up to the layout loop *)

\* The x index of a position follows the iteration order of the dicts and
\* the rendering calls read the graph without changing it; neither is
\* modelled.

\* ntype = "Endpoint" if layer == 3 else "Switch" if layer == 2 else "Router"
NodeType(layer) ==
    IF layer = 3 THEN "Endpoint" ELSE IF layer = 2 THEN "Switch" ELSE "Router"

\* G.add_node(node, layer=layer, ntype=ntype) for every entry of layer_map.
AddNodes(lm) ==
    [n \in DOMAIN lm |-> [layer |-> Some(lm[n]), ntype |-> Some(NodeType(lm[n]))]]

\* G.add_edge(a, b, ...): a node the graph does not have yet is added with
\* no attributes; an edge is an unordered pair and a later one overwrites.
RECURSIVE AddEdges(_, _, _)
AddEdges(g, links, i) ==
    IF i > Len(links) THEN g
    ELSE LET e == links[i]
             bare == [layer |-> None, ntype |-> None]
             nodes == [n \in (DOMAIN g.nodes) \cup {e.a, e.b} |->
                          IF n \in DOMAIN g.nodes THEN g.nodes[n] ELSE bare]
             attrs == [bandwidth |-> e.bw, load |-> e.load,
                       overloaded |-> e.overloaded, app |-> e.app]
             edges == [k \in (DOMAIN g.edges) \cup {{e.a, e.b}} |->
                          IF k = {e.a, e.b} THEN attrs ELSE g.edges[k]]
         IN  AddEdges([nodes |-> nodes, edges |-> edges], links, i + 1)

EmptyGraph == [nodes |-> EmptyDict, edges |-> EmptyDict]

BuildGraph(router_links_annot, access_links_annot, lm) ==
    AddEdges([nodes |-> AddNodes(lm), edges |-> EmptyDict],
             router_links_annot \o access_links_annot, 1)

\* `layers.setdefault(d["layer"], []).append(n)` raises KeyError for a node
\* that has no layer attribute.
LayoutRaises(g) == \E n \in DOMAIN g.nodes : IsNone(g.nodes[n].layer)

----------------------------------------------------------------------------
(* __main__: the run, one action per step *)

FindRouterLinks ==
    /\ stage = "links"
    /\ rtr_links' = find_router_links(routers)
    /\ stage' = "lans"
    /\ UNCHANGED <<routers, switches, endpoints, access_links, layer_map,
                   rtr_links_annot, acc_links_annot, G, pos_error, LOAD_MODE, USE_PEAK>>
    /\ UNCHANGED parserVars

InferAccessLans ==
    /\ stage = "lans"
    /\ LET lans == infer_access_lans(routers)
       IN  /\ switches' = lans.switches
           /\ endpoints' = lans.endpoints
           /\ access_links' = lans.access_links
    /\ stage' = "layers"
    /\ UNCHANGED <<routers, rtr_links, layer_map, rtr_links_annot, acc_links_annot,
                   G, pos_error, LOAD_MODE, USE_PEAK>>
    /\ UNCHANGED parserVars

AutoAssignLayers ==
    /\ stage = "layers"
    /\ layer_map' = auto_assign_layers(rtr_links, switches, endpoints)
    /\ stage' = "annotate_rtr"
    /\ UNCHANGED <<routers, rtr_links, switches, endpoints, access_links,
                   rtr_links_annot, acc_links_annot, G, pos_error, LOAD_MODE, USE_PEAK>>
    /\ UNCHANGED parserVars

\* rtr_links_annot = annotate_links_with_load(rtr_links, is_access=False)
AnnotateRouterLinks ==
    /\ stage = "annotate_rtr"
    /\ \E draws \in [1..Len(rtr_links) -> Draws(FALSE)] :
          rtr_links_annot' = annotate_links_with_load(rtr_links, draws)
    /\ stage' = "annotate_acc"
    /\ UNCHANGED <<routers, rtr_links, switches, endpoints, access_links, layer_map,
                   acc_links_annot, G, pos_error, LOAD_MODE, USE_PEAK>>
    /\ UNCHANGED parserVars

\* acc_links_annot = annotate_links_with_load(access_links, is_access=True)
AnnotateAccessLinks ==
    /\ stage = "annotate_acc"
    /\ \E draws \in [1..Len(access_links) -> Draws(TRUE)] :
          acc_links_annot' = annotate_links_with_load(access_links, draws)
    /\ stage' = "draw"
    /\ UNCHANGED <<routers, rtr_links, switches, endpoints, access_links, layer_map,
                   rtr_links_annot, G, pos_error, LOAD_MODE, USE_PEAK>>
    /\ UNCHANGED parserVars

BuildAndDraw ==
    /\ stage = "draw"
    /\ LET g == BuildGraph(rtr_links_annot, acc_links_annot, layer_map)
       IN  /\ G' = g
           /\ pos_error' = LayoutRaises(g)
           /\ stage' = IF LayoutRaises(g) THEN "crashed" ELSE "done"
    /\ UNCHANGED <<routers, rtr_links, switches, endpoints, access_links, layer_map,
                   rtr_links_annot, acc_links_annot, LOAD_MODE, USE_PEAK>>
    /\ UNCHANGED parserVars

RunIdle ==
    /\ routers = <<>> /\ rtr_links = <<>>
    /\ switches = <<>> /\ endpoints = <<>> /\ access_links = <<>>
    /\ layer_map = EmptyDict
    /\ rtr_links_annot = <<>> /\ acc_links_annot = <<>>
    /\ G = EmptyGraph /\ pos_error = FALSE
    /\ LOAD_MODE = "fixed" /\ USE_PEAK = TRUE
    /\ stage = "idle"

----------------------------------------------------------------------------
(* The whole run over a list of parsed routers, under the fixed load policy *)

Init ==
    /\ ParseIdle
    /\ routers \in RouterLists
    /\ rtr_links = <<>>
    /\ switches = <<>> /\ endpoints = <<>> /\ access_links = <<>>
    /\ layer_map = EmptyDict
    /\ rtr_links_annot = <<>> /\ acc_links_annot = <<>>
    /\ G = EmptyGraph /\ pos_error = FALSE
    /\ LOAD_MODE = "fixed" /\ USE_PEAK = TRUE
    /\ stage = "links"

Next ==
    \/ FindRouterLinks
    \/ InferAccessLans
    \/ AutoAssignLayers
    \/ AnnotateRouterLinks
    \/ AnnotateAccessLinks
    \/ BuildAndDraw

Spec == Init /\ [][Next]_vars

----------------------------------------------------------------------------
(* parse_config alone, over any sequence of lines *)

InitParse == ParseInit /\ RunIdle

NextParse ==
    \/ ReadBlank
    \/ ReadHostname
    \/ ReadInterface
    \/ ReadIpAddress
    \/ ReadBandwidth
    \/ ReadIgnored
    \/ ReadEof

SpecParse == InitParse /\ [][NextParse]_vars

----------------------------------------------------------------------------
(* The run from auto_assign_layers on, over any list of router links,      *)
(* under the fixed load policy                                             *)

LayerRouters == {"R1", "R2", "R3"}
LayerBandwidths == {5000, 10000}

LinkLists ==
    SeqsUpTo([a : LayerRouters, b : LayerRouters, bw : LayerBandwidths], MaxLinks)

\* No access LAN, or the one access LAN of R1's interface Fa0/0.
LanChoices ==
    { NoLans,
      LanOf(IPv4Network(<<192,168,1,1>>, <<255,255,255,0>>),
            [router |-> "R1", iface |-> IfaceName(1), bw |-> DEFAULT_ROUTER_IF_BW]) }

InitLayers ==
    /\ ParseIdle
    /\ routers = <<>>
    /\ rtr_links \in LinkLists
    /\ \E lans \in LanChoices :
          /\ switches = lans.switches
          /\ endpoints = lans.endpoints
          /\ access_links = lans.access_links
    /\ layer_map = EmptyDict
    /\ rtr_links_annot = <<>> /\ acc_links_annot = <<>>
    /\ G = EmptyGraph /\ pos_error = FALSE
    /\ LOAD_MODE = "fixed" /\ USE_PEAK = TRUE
    /\ stage = "layers"

NextLayers ==
    \/ AutoAssignLayers
    \/ AnnotateRouterLinks
    \/ AnnotateAccessLinks
    \/ BuildAndDraw

SpecLayers == InitLayers /\ [][NextLayers]_vars

----------------------------------------------------------------------------
(* annotate_links_with_load alone, over any links and every load policy *)

LoadBandwidths == {0, 1000, 10000}

LoadLinkLists(n) == SeqsUpTo([a : {"A"}, b : {"B"}, bw : LoadBandwidths], n)

InitLoad ==
    /\ ParseIdle
    /\ routers = <<>>
    /\ rtr_links \in LoadLinkLists(MaxLoadLinks)
    /\ switches = <<>> /\ endpoints = <<>>
    /\ access_links \in LoadLinkLists(1)
    /\ layer_map = EmptyDict
    /\ rtr_links_annot = <<>> /\ acc_links_annot = <<>>
    /\ G = EmptyGraph /\ pos_error = FALSE
    /\ LOAD_MODE \in LoadModes /\ USE_PEAK \in BOOLEAN
    /\ stage = "annotate_rtr"

NextLoad ==
    \/ AnnotateRouterLinks
    \/ AnnotateAccessLinks

SpecLoad == InitLoad /\ [][NextLoad]_vars

----------------------------------------------------------------------------
(* Helpers of the properties *)

Range(seq) == { seq[i] : i \in 1..Len(seq) }

LansInferred == stage \notin {"idle", "links", "lans"}
LinksFound == stage \notin {"idle", "links"}
LayersAssigned == stage \notin {"idle", "links", "lans", "layers"}
GraphBuilt == stage \in {"done", "crashed"}

\* The subnets that have at least one addressed interface.
Subnets == { e.net : e \in Range(AllIfaces(routers)) }

\* The positions (router index, interface index) of the interfaces on a subnet.
IfacesOn(net) ==
    { p \in UNION { {i} \X (1..Len(routers[i].interfaces)) : i \in 1..Len(routers) } :
        /\ Addressed(routers[p[1]].interfaces[p[2]])
        /\ NetOf(routers[p[1]].interfaces[p[2]]) = net }

RoutersOn(net) == { p[1] : p \in IfacesOn(net) }

SwitchesOf(net) == { i \in 1..Len(switches) : switches[i].lan_net = net }

\* The endpoints hung under the switches of a subnet.
EndpointsOf(net) ==
    { i \in 1..Len(endpoints) :
        \E k \in SwitchesOf(net), j \in 1..Len(access_links) :
            access_links[j].a = switches[k].name /\ access_links[j].b = endpoints[i] }

\* C1: a subnet whose addressed interfaces all belong to one router yields
\* exactly one switch and ENDPOINTS_PER_LAN endpoints, however many of that
\* router's interfaces are on it; a subnet with interfaces of two or more
\* routers yields no switch.
C1_OneRouterSubnetIsLan ==
    LansInferred =>
        \A net \in Subnets :
            /\ Cardinality(RoutersOn(net)) = 1 =>
                  /\ Cardinality(SwitchesOf(net)) = 1
                  /\ Cardinality(EndpointsOf(net)) = ENDPOINTS_PER_LAN
            /\ Cardinality(RoutersOn(net)) >= 2 => SwitchesOf(net) = {}

\* The first of the values that is present (not None).
FirstPresent(x, y, dflt) ==
    IF ~IsNone(x) THEN Get(x) ELSE IF ~IsNone(y) THEN Get(y) ELSE dflt

\* The pairs (i, j), i < j, of entries on equal subnets, in matching order.
RECURSIVE SameSubnetPairs(_, _, _)
SameSubnetPairs(all, i, j) ==
    IF i > Len(all) THEN <<>>
    ELSE IF j > Len(all) THEN SameSubnetPairs(all, i + 1, i + 2)
    ELSE (IF all[i].net = all[j].net THEN <<(<<i, j>>)>> ELSE <<>>)
         \o SameSubnetPairs(all, i, j + 1)

\* C2: every pair of addressed interface entries on equal subnets gets a
\* link between the owning routers whose bandwidth is the first present of
\* A's bandwidth, B's bandwidth and DEFAULT_ROUTER_IF_BW, for every recorded
\* integer bandwidth.
C2_LinkBandwidthFirstPresent ==
    LinksFound =>
        LET all == AllIfaces(routers)
            pairs == SameSubnetPairs(all, 1, 2)
        IN  /\ Len(rtr_links) = Len(pairs)
            /\ \A k \in 1..Len(pairs) :
                  LET A == all[pairs[k][1]]
                      B == all[pairs[k][2]]
                  IN  /\ rtr_links[k].a = A.router
                      /\ rtr_links[k].b = B.router
                      /\ rtr_links[k].bw =
                            FirstPresent(A.iface.bandwidth, B.iface.bandwidth,
                                         DEFAULT_ROUTER_IF_BW)

AnnotatedLinks == Range(rtr_links_annot) \cup Range(acc_links_annot)

\* C3: under every load policy a link is flagged overloaded exactly when
\* its bandwidth is strictly positive and its load strictly greater than
\* the bandwidth; a link of bandwidth 0 is never flagged.
C3_OverloadFlag ==
    \A l \in AnnotatedLinks :
        /\ l.overloaded = TRUE <=> (l.bw > 0 /\ l.load > l.bw)
        /\ l.bw = 0 => l.overloaded = FALSE

C3_Witness ==
    /\ stage = "draw"
    /\ LOAD_MODE = "random"
    /\ \E l \in Range(rtr_links_annot) : l.bw = 0 /\ l.load > 0
    /\ \E l \in Range(rtr_links_annot) : l.bw > 0 /\ l.overloaded
    /\ \E l \in Range(acc_links_annot) : l.bw > 0 /\ l.load = l.bw

TouchedRouters == UNION { {l.a, l.b} : l \in Range(rtr_links) }

MixedBandwidths == rtr_links # <<>> /\ MaxBw(rtr_links) # MinBw(rtr_links)
EqualBandwidths == rtr_links # <<>> /\ MaxBw(rtr_links) = MinBw(rtr_links)

TouchesMaxLink(r) ==
    \E l \in Range(rtr_links) : l.bw = MaxBw(rtr_links) /\ r \in {l.a, l.b}

SharesLinkWithCore(r) ==
    \E l \in Range(rtr_links) :
        \/ l.a = r /\ TouchesMaxLink(l.b)
        \/ l.b = r /\ TouchesMaxLink(l.a)

\* C4: with unequal router-link bandwidths and any order of the links, a
\* router on a maximum-bandwidth link gets layer 0; a router on none gets
\* layer 1 exactly when it shares a link with a layer-0 router; every other
\* touched router gets layer 2.
C4_MixedBandwidthLayers ==
    (LayersAssigned /\ MixedBandwidths) =>
        \A r \in TouchedRouters :
            /\ r \in DOMAIN layer_map
            /\ TouchesMaxLink(r) => layer_map[r] = 0
            /\ ~TouchesMaxLink(r) =>
                  /\ layer_map[r] = 1 <=> SharesLinkWithCore(r)
                  /\ ~SharesLinkWithCore(r) => layer_map[r] = 2

\* C5: with a non-empty link list of equal bandwidths, the first endpoint
\* of the first link is the only router of layer 0, every other router
\* touched by a link has layer 1, the switches have layer 2 and the
\* endpoints layer 3.
C5_EqualBandwidthLayers ==
    (LayersAssigned /\ EqualBandwidths) =>
        /\ \A r \in TouchedRouters :
              /\ r \in DOMAIN layer_map
              /\ layer_map[r] = (IF r = rtr_links[1].a THEN 0 ELSE 1)
        /\ \A sw \in Range(switches) : layer_map[sw.name] = 2
        /\ \A ep \in Range(endpoints) : layer_map[ep] = 3

C5_Witness ==
    /\ LayersAssigned /\ EqualBandwidths
    /\ Len(rtr_links) >= 2
    /\ Cardinality(TouchedRouters) = 3
    /\ rtr_links[1].a # rtr_links[1].b
    /\ switches # <<>>

\* The names of the interface directives of the lines read, in order.
RECURSIVE DirectiveNames(_)
DirectiveNames(lines) ==
    IF lines = <<>> THEN <<>>
    ELSE LET line == Head(lines)
         IN  (IF line # <<>> /\ line[1] = "interface"
              THEN <<(IF Len(line) >= 2 THEN line[2] ELSE "UNKNOWN")>>
              ELSE <<>>) \o DirectiveNames(Tail(lines))

\* C6: parse_config returns exactly one interface record per interface
\* directive, in the order of the directives, the last one included.
C6_OneRecordPerDirective ==
    ppc = "done" =>
        /\ Len(data.interfaces) = Len(DirectiveNames(file))
        /\ \A k \in 1..Len(data.interfaces) :
              data.interfaces[k].name = DirectiveNames(file)[k]

C6_Witness ==
    /\ ppc = "done"
    /\ Len(data.interfaces) = 3
    /\ data.interfaces[1].name = "Fa0/1"
    /\ data.interfaces[2].name = "UNKNOWN"
    /\ data.interfaces[3].name = "Fa0/0"
    /\ ~IsNone(data.interfaces[3].bandwidth)

ParsedRecords ==
    Range(data.interfaces) \cup (IF IsNone(current) THEN {} ELSE {Get(current)})

\* C7: whatever lines are read, every interface record has its address and
\* its mask both present or both absent.
C7_AddressAndMaskTogether ==
    \A rec \in ParsedRecords : IsNone(rec.ip) <=> IsNone(rec.mask)

C7_Witness ==
    /\ ppc = "done"
    /\ Len(file) = 4
    /\ file[1] = <<"ip", "address", "10.0.0.1", "255.255.255.252">>
    /\ file[3] = <<"ip", "address", "10.0.0.1", "255.255.255.252">>
    /\ file[4] = <<"ip", "address", "10.0.1.1">>
    /\ Len(data.interfaces) = 1
    /\ ~IsNone(data.interfaces[1].ip)

SwitchNames == { sw.name : sw \in Range(switches) }

\* C8: in the graph every typed node is a Router exactly when its layer is
\* 0 or 1, a Switch exactly when it is a synthesized switch at layer 2 and
\* an Endpoint exactly when its layer is 3; no router is typed Switch.
C8_NodeTypes ==
    GraphBuilt =>
        \A n \in DOMAIN G.nodes :
            ~IsNone(G.nodes[n].ntype) =>
                LET t == Get(G.nodes[n].ntype)
                    ly == Get(G.nodes[n].layer)
                IN  /\ t = "Router" <=> ly \in {0, 1}
                    /\ t = "Switch" <=> (n \in SwitchNames /\ ly = 2)
                    /\ t = "Endpoint" <=> ly = 3
                    /\ n \in TouchedRouters => t # "Switch"

LinkEnds == UNION { {l.a, l.b} : l \in Range(rtr_links) \cup Range(access_links) }

\* C9: every node that is an end of a router link or of an access link has
\* an entry in the layer map, so every node of the graph has a layer when
\* the positions are computed.
C9_EveryNodeHasLayer ==
    /\ LayersAssigned => LinkEnds \subseteq DOMAIN layer_map
    /\ GraphBuilt => (~pos_error /\ \A n \in DOMAIN G.nodes : ~IsNone(G.nodes[n].layer))

\* The links find_router_links emits for one subnet: its result on the
\* entries of that subnet alone.
LinksOfSubnet(net) ==
    MatchFrom(SelectSeq(AllIfaces(routers), LAMBDA e : e.net = net), 1, 2)

====
